---- MODULE Spec2Model ----
(***************************************************************************)
(* The external scanner of the twig tree-sitter grammar                    *)
(* (internal/tree_sitter_grammars/twig/src/scanner.c).                     *)
(*                                                                         *)
(* One scan call is modelled statement block by statement block: every     *)
(* loop iteration of the whitespace skip, of the HTML_CONTENT loop, of the *)
(* CONTENT loop and of the COMMENT loop is one step.  The lexer the host   *)
(* hands to the scanner is the input text, the read position, the start of *)
(* the token (moved by skipping advances), the marked end and the result   *)
(* symbol.                                                                 *)
(***************************************************************************)
EXTENDS Integers, Sequences, FiniteSets

(* ------------------------------ bounds --------------------------------- *)

\* longest input text the host hands to the scanner
MaxLen == 4

\* longest body of the texts that start with the comment opener "{#"
MaxBody == 3

\* longest text of the runs in which the host calls the scanner repeatedly
MaxLifeLen == 2

(* ---------------------------- token kinds ------------------------------ *)

CONTENT == 0
COMMENT == 1
HTML_CONTENT == 2

TokenType == {CONTENT, COMMENT, HTML_CONTENT}

(* ----------------------------- characters ------------------------------ *)

\* one representative per character class the scanner tells apart:
\* '<', '{', '%', '#', '}', a whitespace character and an ordinary character
Alphabet == {"<", "{", "%", "#", "}", " ", "a"}

\* lexer->lookahead is 0 at the end of the input
EOF == "eof"

\* the texts that start with "{#", with every body up to MaxBody
CommentTexts ==
    {<<"{", "#">> \o t : t \in UNION {[1..n -> Alphabet] : n \in 0..MaxBody}}

Inputs == UNION {[1..n -> Alphabet] : n \in 0..MaxLen} \cup CommentTexts

VARIABLES
    input,          \* the text being lexed
    valid_symbols,  \* [TokenType -> BOOLEAN], the kinds the parser accepts
    pos,            \* read position of the lexer (0-based, chars consumed)
    token_start,    \* position where the token starts (after skipped chars)
    token_end,      \* {} until mark_end is called, then {marked position}
    result_symbol,  \* {} until lexer->result_symbol is assigned, then {kind}
    has_content,    \* the local of the matcher that is running
    comment_start,  \* read position at which the COMMENT branch was entered
    pc,             \* the block of scan() that runs next
    ret,            \* the value scan() returned (meaningful at "done")
    call_start,     \* read position at which the host started this call
    first_call,     \* {} or {what the first finished call was and gave}
    last_hook,      \* lifecycle hook the host called last since the scan
    serialized      \* {n} if the last hook was serialize() returning n

\* what belongs to the host and its calls of the lifecycle hooks
host == <<call_start, first_call, last_hook, serialized>>

vars == <<input, valid_symbols, pos, token_start, token_end, result_symbol,
          has_content, comment_start, pc, ret, host>>

(* ----------------------------- the lexer ------------------------------- *)

\* lexer->lookahead
Lookahead(s, p) == IF p < Len(s) THEN s[p + 1] ELSE EOF

\* lexer->advance: moves one character forward, no effect at end of input
AdvancePos(s, p) == IF p < Len(s) THEN p + 1 ELSE p

\* iswspace(lexer->lookahead)
iswspace(c) == c = " "

\* HtmlStop with the '{' test dropped
HtmlStop_OnlyTag(c) == c = "<"

\* the stop characters of the HTML_CONTENT run: '<' or '{'
HtmlStop(c) == c = "<" \/ c = "{"

\* IsOpenerSecond with the '#' test dropped
IsOpenerSecond_NoHash(c) == c = "{" \/ c = "%"

\* the characters that make a consumed '{' a delimiter opener
IsOpenerSecond(c) == c = "{" \/ c = "%" \/ c = "#"

la == Lookahead(input, pos)

(* ------------------------------- Init ---------------------------------- *)

Init ==
    /\ input \in Inputs
    /\ valid_symbols \in [TokenType -> BOOLEAN]
    /\ pos = 0
    /\ token_start = 0
    /\ token_end = {}
    /\ result_symbol = {}
    /\ has_content = FALSE
    /\ comment_start = {}
    /\ pc = "ws"
    /\ ret = FALSE
    /\ call_start = 0
    /\ first_call = {}
    /\ last_hook = "none"
    /\ serialized = {}

(* ------------------------------ actions -------------------------------- *)

\* EatWhitespace that advances without the skip flag: the token start stays
EatWhitespace_NoSkip ==
    /\ pc = "ws"
    /\ IF iswspace(la)
         THEN /\ pos' = AdvancePos(input, pos)
              /\ pc' = "ws"
         ELSE /\ pc' = "html_guard"
              /\ UNCHANGED pos
    /\ UNCHANGED <<input, valid_symbols, token_start, token_end,
                   result_symbol, has_content, comment_start, ret>>
    /\ UNCHANGED host

\* EatWhitespace as an if instead of a while: one character is skipped
EatWhitespace_Once ==
    /\ pc = "ws"
    /\ IF iswspace(la)
         THEN /\ pos' = AdvancePos(input, pos)
              /\ token_start' = AdvancePos(input, pos)
         ELSE UNCHANGED <<pos, token_start>>
    /\ pc' = "html_guard"
    /\ UNCHANGED <<input, valid_symbols, token_end, result_symbol,
                   has_content, comment_start, ret>>
    /\ UNCHANGED host

\* while (iswspace(lexer->lookahead)) lexer->advance(lexer, true);
EatWhitespace ==
    /\ pc = "ws"
    /\ IF iswspace(la)
         THEN /\ pos' = AdvancePos(input, pos)
              /\ token_start' = AdvancePos(input, pos)
              /\ pc' = "ws"
         ELSE /\ pc' = "html_guard"
              /\ UNCHANGED <<pos, token_start>>
    /\ UNCHANGED <<input, valid_symbols, token_end, result_symbol,
                   has_content, comment_start, ret>>
    /\ UNCHANGED host

\* HtmlGuard without the lookahead != '{' test
HtmlGuard_NoBraceTest ==
    /\ pc = "html_guard"
    /\ IF valid_symbols[HTML_CONTENT] /\ la # "<"
         THEN /\ pc' = "html_loop"
              /\ has_content' = FALSE
         ELSE /\ pc' = "content_guard"
              /\ UNCHANGED has_content
    /\ UNCHANGED <<input, valid_symbols, pos, token_start, token_end,
                   result_symbol, comment_start, ret>>
    /\ UNCHANGED host

\* HtmlGuard without the valid_symbols[HTML_CONTENT] test
HtmlGuard_Ungated ==
    /\ pc = "html_guard"
    /\ IF la # "<" /\ la # "{"
         THEN /\ pc' = "html_loop"
              /\ has_content' = FALSE
         ELSE /\ pc' = "content_guard"
              /\ UNCHANGED has_content
    /\ UNCHANGED <<input, valid_symbols, pos, token_start, token_end,
                   result_symbol, comment_start, ret>>
    /\ UNCHANGED host

\* HtmlGuard placed after the CONTENT branch: it is reached only when CONTENT
\* is not requested
HtmlGuard_AfterContent ==
    /\ pc = "html_guard"
    /\ IF valid_symbols[HTML_CONTENT] /\ ~valid_symbols[CONTENT]
          /\ la # "<" /\ la # "{"
         THEN /\ pc' = "html_loop"
              /\ has_content' = FALSE
         ELSE /\ pc' = "content_guard"
              /\ UNCHANGED has_content
    /\ UNCHANGED <<input, valid_symbols, pos, token_start, token_end,
                   result_symbol, comment_start, ret>>
    /\ UNCHANGED host

\* if (valid_symbols[HTML_CONTENT] && lookahead != '<' && lookahead != '{')
HtmlGuard ==
    /\ pc = "html_guard"
    /\ IF valid_symbols[HTML_CONTENT] /\ la # "<" /\ la # "{"
         THEN /\ pc' = "html_loop"
              /\ has_content' = FALSE
         ELSE /\ pc' = "content_guard"
              /\ UNCHANGED has_content
    /\ UNCHANGED <<input, valid_symbols, pos, token_start, token_end,
                   result_symbol, comment_start, ret>>
    /\ UNCHANGED host

\* HtmlLoop as while (true): the loop condition lexer->lookahead is dropped,
\* only '<' and '{' leave the loop
HtmlLoop_NoEofTest ==
    /\ pc = "html_loop"
    /\ IF ~HtmlStop(la)
         THEN /\ pos' = AdvancePos(input, pos)
              /\ token_end' = {AdvancePos(input, pos)}
              /\ has_content' = TRUE
              /\ pc' = "html_loop"
         ELSE /\ pc' = "html_finish"
              /\ UNCHANGED <<pos, token_end, has_content>>
    /\ UNCHANGED <<input, valid_symbols, token_start, result_symbol,
                   comment_start, ret>>
    /\ UNCHANGED host

\* HtmlLoop that calls mark_end before advance instead of after it
HtmlLoop_MarkBeforeAdvance ==
    /\ pc = "html_loop"
    /\ IF la # EOF /\ ~HtmlStop(la)
         THEN /\ pos' = AdvancePos(input, pos)
              /\ token_end' = {pos}
              /\ has_content' = TRUE
              /\ pc' = "html_loop"
         ELSE /\ pc' = "html_finish"
              /\ UNCHANGED <<pos, token_end, has_content>>
    /\ UNCHANGED <<input, valid_symbols, token_start, result_symbol,
                   comment_start, ret>>
    /\ UNCHANGED host

\* one iteration of the HTML_CONTENT loop, or its exit
HtmlLoop ==
    /\ pc = "html_loop"
    /\ IF la # EOF /\ ~HtmlStop(la)
         THEN /\ pos' = AdvancePos(input, pos)
              /\ token_end' = {AdvancePos(input, pos)}
              /\ has_content' = TRUE
              /\ pc' = "html_loop"
         ELSE /\ pc' = "html_finish"
              /\ UNCHANGED <<pos, token_end, has_content>>
    /\ UNCHANGED <<input, valid_symbols, token_start, result_symbol,
                   comment_start, ret>>
    /\ UNCHANGED host

\* HtmlFinish that records the first enumerator instead of HTML_CONTENT
HtmlFinish_RecordsFirst ==
    /\ pc = "html_finish"
    /\ IF has_content
         THEN /\ result_symbol' = {CONTENT}
              /\ ret' = TRUE
              /\ pc' = "done"
         ELSE /\ pc' = "content_guard"
              /\ UNCHANGED <<result_symbol, ret>>
    /\ UNCHANGED <<input, valid_symbols, pos, token_start, token_end,
                   has_content, comment_start>>
    /\ UNCHANGED host

\* if (has_content) { result_symbol = HTML_CONTENT; return true; }
HtmlFinish ==
    /\ pc = "html_finish"
    /\ IF has_content
         THEN /\ result_symbol' = {HTML_CONTENT}
              /\ ret' = TRUE
              /\ pc' = "done"
         ELSE /\ pc' = "content_guard"
              /\ UNCHANGED <<result_symbol, ret>>
    /\ UNCHANGED <<input, valid_symbols, pos, token_start, token_end,
                   has_content, comment_start>>
    /\ UNCHANGED host

\* ContentGuard with has_content declared static: it is not set to false
\* when the branch is entered
ContentGuard_StaticHasContent ==
    /\ pc = "content_guard"
    /\ IF valid_symbols[CONTENT]
         THEN pc' = "content_loop"
         ELSE pc' = "comment_guard"
    /\ UNCHANGED <<input, valid_symbols, pos, token_start, token_end,
                   result_symbol, has_content, comment_start, ret>>
    /\ UNCHANGED host

\* if (valid_symbols[CONTENT]) { bool has_content = false; ...
ContentGuard ==
    /\ pc = "content_guard"
    /\ IF valid_symbols[CONTENT]
         THEN /\ pc' = "content_loop"
              /\ has_content' = FALSE
         ELSE /\ pc' = "comment_guard"
              /\ UNCHANGED has_content
    /\ UNCHANGED <<input, valid_symbols, pos, token_start, token_end,
                   result_symbol, comment_start, ret>>
    /\ UNCHANGED host

\* ContentLoop that peeks behind a '{' and leaves an opener's '{' unconsumed
ContentLoop_PeekOpener ==
    /\ pc = "content_loop"
    /\ IF la = EOF
         THEN /\ pc' = "content_finish"
              /\ UNCHANGED <<pos, token_end, has_content>>
         ELSE IF la = "{"
           THEN LET p1 == AdvancePos(input, pos) IN
                IF IsOpenerSecond(Lookahead(input, p1))
                  THEN /\ pc' = "content_finish"
                       /\ UNCHANGED <<pos, token_end, has_content>>
                  ELSE /\ pos' = p1
                       /\ token_end' = {p1}
                       /\ has_content' = TRUE
                       /\ pc' = "content_loop"
           ELSE IF la = "<"
             THEN /\ pc' = "content_finish"
                  /\ UNCHANGED <<pos, token_end, has_content>>
             ELSE /\ pos' = AdvancePos(input, pos)
                  /\ token_end' = {AdvancePos(input, pos)}
                  /\ has_content' = TRUE
                  /\ pc' = "content_loop"
    /\ UNCHANGED <<input, valid_symbols, token_start, result_symbol,
                   comment_start, ret>>
    /\ UNCHANGED host

\* ContentLoop where a '{' that is not an opener continues the loop without
\* reaching mark_end
ContentLoop_BraceUnmarked ==
    /\ pc = "content_loop"
    /\ IF la = EOF
         THEN /\ pc' = "content_finish"
              /\ UNCHANGED <<pos, token_end, has_content>>
         ELSE IF la = "{"
           THEN LET p1 == AdvancePos(input, pos) IN
                /\ pos' = p1
                /\ UNCHANGED <<token_end, has_content>>
                /\ IF IsOpenerSecond(Lookahead(input, p1))
                     THEN pc' = "content_finish"
                     ELSE pc' = "content_loop"
           ELSE IF la = "<"
             THEN /\ pc' = "content_finish"
                  /\ UNCHANGED <<pos, token_end, has_content>>
             ELSE /\ pos' = AdvancePos(input, pos)
                  /\ token_end' = {AdvancePos(input, pos)}
                  /\ has_content' = TRUE
                  /\ pc' = "content_loop"
    /\ UNCHANGED <<input, valid_symbols, token_start, result_symbol,
                   comment_start, ret>>
    /\ UNCHANGED host

\* one iteration of the CONTENT loop, or its exit
ContentLoop ==
    /\ pc = "content_loop"
    /\ IF la = EOF
         THEN /\ pc' = "content_finish"
              /\ UNCHANGED <<pos, token_end, has_content>>
         ELSE IF la = "{"
           THEN LET p1 == AdvancePos(input, pos) IN
                /\ pos' = p1
                /\ IF IsOpenerSecond(Lookahead(input, p1))
                     THEN /\ pc' = "content_finish"
                          /\ UNCHANGED <<token_end, has_content>>
                     ELSE /\ token_end' = {p1}
                          /\ has_content' = TRUE
                          /\ pc' = "content_loop"
           ELSE IF la = "<"
             THEN /\ pc' = "content_finish"
                  /\ UNCHANGED <<pos, token_end, has_content>>
             ELSE /\ pos' = AdvancePos(input, pos)
                  /\ token_end' = {AdvancePos(input, pos)}
                  /\ has_content' = TRUE
                  /\ pc' = "content_loop"
    /\ UNCHANGED <<input, valid_symbols, token_start, result_symbol,
                   comment_start, ret>>
    /\ UNCHANGED host

\* if (has_content) { result_symbol = CONTENT; return true; }
ContentFinish ==
    /\ pc = "content_finish"
    /\ IF has_content
         THEN /\ result_symbol' = {CONTENT}
              /\ ret' = TRUE
              /\ pc' = "done"
         ELSE /\ pc' = "comment_guard"
              /\ UNCHANGED <<result_symbol, ret>>
    /\ UNCHANGED <<input, valid_symbols, pos, token_start, token_end,
                   has_content, comment_start>>
    /\ UNCHANGED host

\* CommentGuard gated by valid_symbols[COMMENT]
CommentGuard_Gated ==
    /\ pc = "comment_guard"
    /\ IF valid_symbols[COMMENT] /\ la = "#"
         THEN /\ comment_start' = {pos}
              /\ pos' = AdvancePos(input, pos)
              /\ pc' = "comment_loop"
              /\ UNCHANGED ret
         ELSE /\ ret' = FALSE
              /\ pc' = "done"
              /\ UNCHANGED <<pos, comment_start>>
    /\ UNCHANGED <<input, valid_symbols, token_start, token_end,
                   result_symbol, has_content>>
    /\ UNCHANGED host

\* if (lexer->lookahead == '#') { advance(lexer); ... } return false;
CommentGuard ==
    /\ pc = "comment_guard"
    /\ IF la = "#"
         THEN /\ comment_start' = {pos}
              /\ pos' = AdvancePos(input, pos)
              /\ pc' = "comment_loop"
              /\ UNCHANGED ret
         ELSE /\ ret' = FALSE
              /\ pc' = "done"
              /\ UNCHANGED <<pos, comment_start>>
    /\ UNCHANGED <<input, valid_symbols, token_start, token_end,
                   result_symbol, has_content>>
    /\ UNCHANGED host

\* CommentLoop without the mark_end that follows the closing '}'
CommentLoop_NoFinalMark ==
    /\ pc = "comment_loop"
    /\ IF la = EOF
         THEN /\ ret' = FALSE
              /\ pc' = "done"
              /\ UNCHANGED <<pos, token_end, result_symbol>>
         ELSE IF la = "#"
           THEN LET p1 == AdvancePos(input, pos) IN
                IF Lookahead(input, p1) = "}"
                  THEN /\ result_symbol' = {COMMENT}
                       /\ pos' = AdvancePos(input, p1)
                       /\ token_end' = {pos}
                       /\ ret' = TRUE
                       /\ pc' = "done"
                  ELSE /\ pos' = AdvancePos(input, p1)
                       /\ token_end' = {pos}
                       /\ pc' = "comment_loop"
                       /\ UNCHANGED <<result_symbol, ret>>
           ELSE /\ pos' = AdvancePos(input, pos)
                /\ token_end' = {pos}
                /\ pc' = "comment_loop"
                /\ UNCHANGED <<result_symbol, ret>>
    /\ UNCHANGED <<input, valid_symbols, token_start, has_content,
                   comment_start>>
    /\ UNCHANGED host

\* CommentLoop that assigns result_symbol as soon as it sees a '#', before
\* it has checked for the '}'
CommentLoop_EarlyResult ==
    /\ pc = "comment_loop"
    /\ IF la = EOF
         THEN /\ ret' = FALSE
              /\ pc' = "done"
              /\ UNCHANGED <<pos, token_end, result_symbol>>
         ELSE IF la = "#"
           THEN LET p1 == AdvancePos(input, pos) IN
                /\ result_symbol' = {COMMENT}
                /\ IF Lookahead(input, p1) = "}"
                     THEN /\ pos' = AdvancePos(input, p1)
                          /\ token_end' = {AdvancePos(input, p1)}
                          /\ ret' = TRUE
                          /\ pc' = "done"
                     ELSE /\ pos' = AdvancePos(input, p1)
                          /\ token_end' = {pos}
                          /\ pc' = "comment_loop"
                          /\ UNCHANGED ret
           ELSE /\ pos' = AdvancePos(input, pos)
                /\ token_end' = {pos}
                /\ pc' = "comment_loop"
                /\ UNCHANGED <<result_symbol, ret>>
    /\ UNCHANGED <<input, valid_symbols, token_start, has_content,
                   comment_start>>
    /\ UNCHANGED host

\* one iteration of the COMMENT loop, or its exit into return false
CommentLoop ==
    /\ pc = "comment_loop"
    /\ IF la = EOF
         THEN /\ ret' = FALSE
              /\ pc' = "done"
              /\ UNCHANGED <<pos, token_end, result_symbol>>
         ELSE IF la = "#"
           THEN LET p1 == AdvancePos(input, pos) IN
                IF Lookahead(input, p1) = "}"
                  THEN /\ result_symbol' = {COMMENT}
                       /\ pos' = AdvancePos(input, p1)
                       /\ token_end' = {AdvancePos(input, p1)}
                       /\ ret' = TRUE
                       /\ pc' = "done"
                  ELSE /\ pos' = AdvancePos(input, p1)
                       /\ token_end' = {pos}
                       /\ pc' = "comment_loop"
                       /\ UNCHANGED <<result_symbol, ret>>
           ELSE /\ pos' = AdvancePos(input, pos)
                /\ token_end' = {pos}
                /\ pc' = "comment_loop"
                /\ UNCHANGED <<result_symbol, ret>>
    /\ UNCHANGED <<input, valid_symbols, token_start, has_content,
                   comment_start>>
    /\ UNCHANGED host

Next ==
    \/ EatWhitespace
    \/ HtmlGuard
    \/ HtmlLoop
    \/ HtmlFinish
    \/ ContentGuard
    \/ ContentLoop
    \/ ContentFinish
    \/ CommentGuard
    \/ CommentLoop

Spec == Init /\ [][Next]_vars

\* scan() is straight-line code on the calling thread: a call that has a
\* next statement executes it
SpecFair == Init /\ [][Next]_vars /\ WF_vars(Next)

(* ------------------- the host and the lifecycle hooks ------------------ *)

LifeInputs == UNION {[1..n -> Alphabet] : n \in 0..MaxLifeLen}

\* the requested sets of these runs: scan() reads valid_symbols[HTML_CONTENT]
\* and valid_symbols[CONTENT] only, so these two flags are the ones that vary
LifeValid == {v \in [TokenType -> BOOLEAN] : ~v[COMMENT]}

\* what a finished call was started with and what it gave
CallRecord ==
    [start |-> call_start, valid |-> valid_symbols, ret |-> ret,
     result |-> result_symbol, token_end |-> token_end]

\* the host starts its first scan anywhere in the text
InitLife ==
    /\ input \in LifeInputs
    /\ valid_symbols \in LifeValid
    /\ call_start \in 0..Len(input)
    /\ pos = call_start
    /\ token_start = call_start
    /\ token_end = {}
    /\ result_symbol = {}
    /\ has_content = FALSE
    /\ comment_start = {}
    /\ pc = "ws"
    /\ ret = FALSE
    /\ first_call = {}
    /\ last_hook = "none"
    /\ serialized = {}

\* void tree_sitter_twig_external_scanner_reset(void *p) {}
Reset ==
    /\ pc = "done"
    /\ last_hook' = "reset"
    /\ serialized' = {}
    /\ UNCHANGED <<input, valid_symbols, pos, token_start, token_end,
                   result_symbol, has_content, comment_start, pc, ret,
                   call_start, first_call>>

\* unsigned ..._serialize(void *p, char *buffer) { return 0; }
Serialize ==
    /\ pc = "done"
    /\ last_hook' = "serialize"
    /\ serialized' = {0}
    /\ UNCHANGED <<input, valid_symbols, pos, token_start, token_end,
                   result_symbol, has_content, comment_start, pc, ret,
                   call_start, first_call>>

\* void ..._deserialize(void *p, const char *b, unsigned n) {}
Deserialize ==
    /\ pc = "done"
    /\ last_hook' = "deserialize"
    /\ serialized' = {}
    /\ UNCHANGED <<input, valid_symbols, pos, token_start, token_end,
                   result_symbol, has_content, comment_start, pc, ret,
                   call_start, first_call>>

\* the host calls scan() again: it sets the lexer to a position of the text,
\* with no end marked and no result, and passes the kinds valid there; the
\* scanner keeps nothing but what its own code keeps
NextCall ==
    /\ pc = "done"
    /\ \E p \in 0..Len(input), v \in LifeValid :
          /\ call_start' = p
          /\ pos' = p
          /\ token_start' = p
          /\ valid_symbols' = v
    /\ token_end' = {}
    /\ result_symbol' = {}
    /\ comment_start' = {}
    /\ ret' = FALSE
    /\ pc' = "ws"
    /\ first_call' = IF first_call = {} THEN {CallRecord} ELSE first_call
    /\ last_hook' = "none"
    /\ serialized' = {}
    /\ UNCHANGED <<input, has_content>>

NextLife ==
    \/ Next
    \/ Reset
    \/ Serialize
    \/ Deserialize
    \/ NextCall

SpecLife == InitLife /\ [][NextLife]_vars

(* ------------------- what the text itself determines ------------------- *)

Min(S) == CHOOSE x \in S : \A y \in S : x <= y

Done == pc = "done"

\* position of the first character that is not whitespace (Len if none)
FirstNonWs(s) == Min({p \in 0..Len(s) : p = Len(s) \/ s[p + 1] # " "})

\* the character at FirstNonWs, EOF if there is none
FirstChar(s) == IF FirstNonWs(s) < Len(s) THEN s[FirstNonWs(s) + 1] ELSE EOF

\* a '{' at position p that is followed by '{', '%' or '#'
IsOpenerAt(s, p) ==
    /\ p + 1 < Len(s)
    /\ s[p + 1] = "{"
    /\ s[p + 2] \in {"{", "%", "#"}

\* a '{' at position p that is not followed by '{', '%' or '#'
IsLoneBraceAt(s, p) ==
    /\ p < Len(s)
    /\ s[p + 1] = "{"
    /\ ~IsOpenerAt(s, p)

\* first position at or after from that is end of input, a '<' or the '{'
\* of a delimiter opener
ContentStop(s, from) ==
    Min({p \in from..Len(s) : p = Len(s) \/ s[p + 1] = "<" \/ IsOpenerAt(s, p)})

\* first position at or after from that is end of input, a '<' or a '{'
HtmlRunEnd(s, from) ==
    Min({p \in from..Len(s) : p = Len(s) \/ s[p + 1] \in {"<", "{"}})

\* positions at or after from where a "#}" closer starts
Closers(s, from) ==
    {p \in from..(Len(s) - 2) : s[p + 1] = "#" /\ s[p + 2] = "}"}

\* positions at or after from that hold a '#'
Hashes(s, from) == {p \in from..(Len(s) - 1) : s[p + 1] = "#"}

(* ------------------------------- claims -------------------------------- *)

\* C1: a successful scan that reports HTML_CONTENT had HTML_CONTENT in the
\* requested set, and one that reports CONTENT had CONTENT in the requested
\* set; COMMENT is the only kind that can be reported unrequested.
C1_OnlyRequestedKinds ==
    (Done /\ ret) =>
        \A k \in result_symbol :
            k \in {HTML_CONTENT, CONTENT} => valid_symbols[k]

C1_Witness ==
    /\ Done /\ ret
    /\ result_symbol = {CONTENT}
    /\ ~valid_symbols[HTML_CONTENT]
    /\ ~valid_symbols[COMMENT]

\* C2: an emitted CONTENT span starts at the first non-whitespace character
\* and ends at end of input, right before the first '<' or right before the
\* '{' of the first delimiter opener, whichever comes first; the marked end is
\* never the position just after a '{' that is followed by '{', '%' or '#'.
C2_ContentSpanEnd ==
    (Done /\ ret /\ result_symbol = {CONTENT}) =>
        /\ token_start = FirstNonWs(input)
        /\ token_end = {ContentStop(input, FirstNonWs(input))}
        /\ \A e \in token_end : ~(e >= 1 /\ IsOpenerAt(input, e - 1))

C2_Witness ==
    /\ Done /\ ret
    /\ result_symbol = {CONTENT}
    /\ \E e \in token_end :
          /\ IsOpenerAt(input, e)
          /\ pos = e + 1
          /\ e > token_start

\* C3: with HTML_CONTENT requested and a first non-whitespace character other
\* than '<', '{' and end of input, the scan reports HTML_CONTENT, the span is
\* the maximal run from that character up to and excluding the first '<' or
\* '{' or end of input, and the read position equals the marked end.
C3_HtmlMaximalRun ==
    (Done /\ valid_symbols[HTML_CONTENT]
          /\ FirstChar(input) \notin {"<", "{", EOF}) =>
        /\ ret
        /\ result_symbol = {HTML_CONTENT}
        /\ token_start = FirstNonWs(input)
        /\ token_end = {HtmlRunEnd(input, FirstNonWs(input))}
        /\ pos = HtmlRunEnd(input, FirstNonWs(input))

C3_Witness ==
    /\ Done /\ ret
    /\ result_symbol = {HTML_CONTENT}
    /\ pos < Len(input)
    /\ input[pos + 1] = "{"
    /\ pos >= token_start + 2

\* C4: whenever the COMMENT branch is entered and the text after the opening
\* '#' holds a "#}" closer, the scan reports COMMENT and the span ends right
\* after the first such closer, whatever '#' the body holds before it.
C4_CommentFindsFirstCloser ==
    (Done /\ comment_start # {}) =>
        \A c \in comment_start :
            Closers(input, c + 1) # {} =>
                /\ ret
                /\ result_symbol = {COMMENT}
                /\ token_end = {Min(Closers(input, c + 1)) + 2}

C6_LoneBraceIncluded ==
    /\ (Done /\ ret /\ result_symbol = {CONTENT}) =>
          \A i \in token_start..(Len(input) - 1) :
              (IsLoneBraceAt(input, i) /\ i < ContentStop(input, token_start))
                  => \E e \in token_end : token_start <= i /\ i < e
    /\ (Done /\ valid_symbols[CONTENT]
             /\ IsLoneBraceAt(input, FirstNonWs(input))) =>
          (ret /\ result_symbol = {CONTENT})

C6_Witness ==
    /\ Done /\ ret
    /\ result_symbol = {CONTENT}
    /\ \E e \in token_end :
          /\ e >= token_start + 2
          /\ IsLoneBraceAt(input, e - 1)
          /\ e < Len(input)
          /\ input[e + 1] = "<"

\* C7: a scan that reports COMMENT has its marked end, and its read position,
\* right after the '}' of a "#}" closer that lies after the opening '#'; the
\* span holds the opening '#' and both closer characters.
C7_CommentEndAfterCloser ==
    (Done /\ ret /\ result_symbol = {COMMENT}) =>
        \E c \in comment_start :
            /\ token_start <= c
            /\ input[c + 1] = "#"
            /\ token_end = {pos}
            /\ pos >= c + 3
            /\ input[pos - 1] = "#"
            /\ input[pos] = "}"

C7_Witness ==
    /\ Done /\ ret
    /\ result_symbol = {COMMENT}
    /\ comment_start = {token_start}
    /\ token_end = {token_start + 4}

\* C8: when the COMMENT branch is entered and the text after the opening '#'
\* holds no "#}" closer, the scan returns no-match; a scan that entered the
\* COMMENT branch and returns no-match has recorded no result kind.
C8_UnterminatedCommentNoMatch ==
    (Done /\ comment_start # {}) =>
        /\ (\A c \in comment_start : Closers(input, c + 1) = {}) => ~ret
        /\ ~ret => result_symbol = {}

C8_Witness ==
    /\ Done /\ ~ret
    /\ comment_start # {}
    /\ result_symbol = {}
    /\ Len(input) >= 3
    /\ input[Len(input)] = "#"
    /\ \A c \in comment_start : Closers(input, c + 1) = {}

\* C9: with HTML_CONTENT and CONTENT both requested and a first
\* non-whitespace character other than '<', '{' and end of input, the scan
\* reports HTML_CONTENT, never CONTENT or COMMENT.
C9_HtmlBeforeContent ==
    (Done /\ valid_symbols[HTML_CONTENT] /\ valid_symbols[CONTENT]
          /\ FirstChar(input) \notin {"<", "{", EOF}) =>
        (ret /\ result_symbol = {HTML_CONTENT})

C9_Witness ==
    /\ Done /\ ret
    /\ valid_symbols[HTML_CONTENT] /\ valid_symbols[CONTENT]
    /\ FirstChar(input) = "a"
    /\ result_symbol = {HTML_CONTENT}
    /\ comment_start = {}

\* C10: for a text of whitespace only, the empty text included, and every
\* requested set, the scan skips all of it and returns no-match with no
\* result kind recorded.
C10_WhitespaceOnlyNoMatch ==
    (Done /\ FirstNonWs(input) = Len(input)) =>
        /\ ~ret
        /\ result_symbol = {}
        /\ pos = Len(input)
        /\ token_start = Len(input)
        /\ token_end = {}

C10_Witness ==
    /\ Done /\ ~ret
    /\ Len(input) >= 2
    /\ FirstNonWs(input) = Len(input)
    /\ pos = Len(input)
    /\ \A k \in TokenType : valid_symbols[k]

\* C11: with HTML_CONTENT requested and a first non-whitespace character '{'
\* or '<', the HTML_CONTENT branch is never entered: its loop does not run,
\* nothing is consumed or marked by it and HTML_CONTENT is not reported; when
\* CONTENT is not requested the scan returns no-match with the read position
\* still at that character and nothing marked or recorded.
C11_HtmlDisqualified ==
    (valid_symbols[HTML_CONTENT] /\ FirstChar(input) \in {"<", "{"}) =>
        /\ pc \notin {"html_loop", "html_finish"}
        /\ result_symbol # {HTML_CONTENT}
        /\ pc \in {"html_guard", "content_guard"} =>
              (pos = FirstNonWs(input) /\ token_end = {})
        /\ (Done /\ ~valid_symbols[CONTENT]) =>
              /\ ~ret
              /\ result_symbol = {}
              /\ pos = FirstNonWs(input)
              /\ token_end = {}

C11_Witness ==
    /\ Done /\ ~ret
    /\ valid_symbols[HTML_CONTENT]
    /\ ~valid_symbols[CONTENT] /\ ~valid_symbols[COMMENT]
    /\ FirstChar(input) = "{"
    /\ FirstNonWs(input) >= 1
    /\ IsOpenerAt(input, FirstNonWs(input))
    /\ pos = FirstNonWs(input)

\* C12 as stated: the span of an emitted token holds no whitespace character.
C12_NoWhitespaceInSpan ==
    (Done /\ ret) =>
        \A e \in token_end :
            \A i \in token_start..(e - 1) : input[i + 1] # " "

\* C12 amended: the whitespace in front of the token is skipped without a
\* mark_end and is never part of the span: while it is skipped nothing is
\* marked and the token start follows the read position, and an emitted span
\* starts at the first non-whitespace character.  Whitespace after that
\* character is consumed and marked like any other character.
C12_LeadingWhitespaceSkipped ==
    /\ pc = "ws" =>
          /\ token_end = {}
          /\ token_start = pos
          /\ \A i \in 0..(pos - 1) : input[i + 1] = " "
    /\ (Done /\ ret) =>
          /\ token_start = FirstNonWs(input)
          /\ token_start < Len(input)
          /\ input[token_start + 1] # " "

C12_Witness ==
    /\ Done /\ ret
    /\ token_start >= 1
    /\ input[token_start + 1] # " "
    /\ \E e \in token_end :
          \E i \in token_start..(e - 1) : input[i + 1] = " "

\* C15 as stated: the three kinds are numbered in priority order, so a
\* successful HTML run records ordinal 0, a directive-content run ordinal 1
\* and a comment ordinal 2.
C15_OrdinalsInPriorityOrder ==
    [][ /\ Cardinality(TokenType) = 3
        /\ (pc = "html_finish" /\ pc' = "done") => result_symbol' = {0}
        /\ (pc = "content_finish" /\ pc' = "done") => result_symbol' = {1}
        /\ (pc = "comment_loop" /\ pc' = "done" /\ ret') =>
              result_symbol' = {2} ]_vars

\* C15 amended: the enumeration has exactly 3 members, numbered in
\* declaration order CONTENT = 0, COMMENT = 1, HTML_CONTENT = 2, which is not
\* the order in which the matchers are tried: a successful HTML run records
\* ordinal 2 and was requested at index 2, a directive-content run records
\* ordinal 0 and was requested at index 0, a comment records ordinal 1.
C15_OrdinalsInDeclarationOrder ==
    [][ /\ Cardinality(TokenType) = 3
        /\ TokenType = 0..2
        /\ (pc = "html_finish" /\ pc' = "done") =>
              (result_symbol' = {2} /\ valid_symbols[2])
        /\ (pc = "content_finish" /\ pc' = "done") =>
              (result_symbol' = {0} /\ valid_symbols[0])
        /\ (pc = "comment_loop" /\ pc' = "done" /\ ret') =>
              result_symbol' = {1} ]_vars

C15_Witness ==
    /\ Done /\ ret
    /\ result_symbol = {2}
    /\ valid_symbols[2] /\ ~valid_symbols[0] /\ ~valid_symbols[1]
    /\ comment_start = {}

\* C16 as stated: a matcher that declines leaves the read position where it
\* was when the matcher was tried: the directive-content and the comment
\* matcher are both tried at the first non-whitespace character, and a call
\* that returns no-match without entering the comment loop ends there.
C16_DeclineLeavesCursor ==
    /\ pc \in {"content_guard", "comment_guard"} => pos = FirstNonWs(input)
    /\ (Done /\ ~ret /\ comment_start = {}) => pos = FirstNonWs(input)

\* C16 amended: the HTML-run matcher declines without consuming, and the
\* directive-content matcher declines without consuming except on a text
\* that starts with "{{", "{%" or "{#": there it has consumed the first '{',
\* so the comment matcher is tried, and a no-match call that does not enter
\* the comment loop returns, one character past that '{'.
C16_DeclineConsumesOpenerBrace ==
    /\ pc = "content_guard" => pos = FirstNonWs(input)
    /\ (pc = "comment_guard" \/ (Done /\ ~ret /\ comment_start = {})) =>
          pos = IF valid_symbols[CONTENT]
                   /\ IsOpenerAt(input, FirstNonWs(input))
                  THEN FirstNonWs(input) + 1
                  ELSE FirstNonWs(input)

C16_Witness ==
    /\ Done /\ ~ret
    /\ comment_start = {}
    /\ valid_symbols[CONTENT]
    /\ IsOpenerAt(input, FirstNonWs(input))
    /\ input[FirstNonWs(input) + 2] = "%"
    /\ pos = FirstNonWs(input) + 1
    /\ token_end = {}

\* C18: on every successful scan the marked span is not empty and the marked
\* end is not beyond the read position; they are equal for HTML_CONTENT and
\* COMMENT, and for CONTENT the read position is the marked end or one past
\* it, the latter exactly when the run stopped on the '{' of an opener.
C18_MarkedEndVsReadPosition ==
    (Done /\ ret) =>
        \E e \in token_end :
            /\ token_end = {e}
            /\ e > token_start
            /\ e <= pos
            /\ result_symbol \subseteq {HTML_CONTENT, COMMENT} => pos = e
            /\ result_symbol = {CONTENT} =>
                  /\ pos - e <= 1
                  /\ (pos = e + 1) <=> IsOpenerAt(input, e)

C18_Witness ==
    /\ Done /\ ret
    /\ result_symbol = {CONTENT}
    /\ valid_symbols[HTML_CONTENT]
    /\ \E e \in token_end :
          /\ pos = e + 1
          /\ input[e + 2] = "#"
          /\ IsLoneBraceAt(input, token_start)

\* C14: every scan call reaches its return, and every iteration of the
\* whitespace, HTML_CONTENT, CONTENT and COMMENT loops that stays in its loop
\* starts before end of input and moves the read position forward.
C14_ScanTerminates ==
    /\ <>Done
    /\ [][ (pc' = pc) => (pos < Len(input) /\ pos' > pos) ]_vars

C14_Witness ==
    /\ Done
    /\ comment_start # {}
    /\ FirstNonWs(input) >= 1
    /\ pos = Len(input)
    /\ Len(input) >= 4

\* C17: with CONTENT requested, a text whose first non-whitespace characters
\* are "{#" and that holds a "#}" closer after them is reported as COMMENT
\* with a span from that '{' to right after the first such closer; and with
\* CONTENT requested COMMENT is reported only for texts whose first
\* non-whitespace characters are "{#".
C17_BraceHashComment ==
    /\ (Done /\ valid_symbols[CONTENT]
             /\ IsOpenerAt(input, FirstNonWs(input))
             /\ input[FirstNonWs(input) + 2] = "#"
             /\ Closers(input, FirstNonWs(input) + 2) # {}) =>
          /\ ret
          /\ result_symbol = {COMMENT}
          /\ token_start = FirstNonWs(input)
          /\ token_end = {Min(Closers(input, FirstNonWs(input) + 2)) + 2}
    /\ (Done /\ valid_symbols[CONTENT] /\ ret /\ result_symbol = {COMMENT}) =>
          /\ IsOpenerAt(input, FirstNonWs(input))
          /\ input[FirstNonWs(input) + 2] = "#"

\* C13: a call that starts at the same position of the same text with the
\* same requested set as the first call the host made returns the same
\* success flag, result kind and marked end, whatever scans and lifecycle
\* hooks came in between; and serialize never reports anything but 0 bytes.
C13_SameCallSameOutcome ==
    /\ Done =>
          \A f \in first_call :
              (f.start = call_start /\ f.valid = valid_symbols) =>
                  /\ f.ret = ret
                  /\ f.result = result_symbol
                  /\ f.token_end = token_end
    /\ serialized \subseteq {0}

C13_Witness ==
    /\ Done /\ ret
    /\ result_symbol = {CONTENT}
    /\ serialized = {0}
    /\ last_hook = "serialize"
    /\ call_start = 1
    /\ \E f \in first_call :
          /\ f.start = call_start
          /\ f.valid = valid_symbols
          /\ f.ret

====
